---- MODULE Spec2Model ----
(***************************************************************************)
(* Model of generate_blocklist.py: the domain extractor, the consolidator  *)
(* (optimise_domains), the formatter and the orchestration in              *)
(* process_category / main.                                                *)
(*                                                                         *)
(* A Python str is modelled as a sequence of one-character strings, so     *)
(* that split, strip, lower, endswith and the ordering used by sorted()    *)
(* are computed character by character.                                    *)
(***************************************************************************)
EXTENDS Naturals, Sequences, FiniteSets, TLC

(***************************************************************************)
(* Bounds of the model.                                                    *)
(***************************************************************************)
MaxLabels == 3
MaxDomains == 3
MaxLines == 2
MaxSources == 2
NumCategories == 2

(***************************************************************************)
(* Characters and Python's str primitives.                                 *)
(***************************************************************************)

\* The characters of the model, in code point order.
Alphabet ==
  << "\n", " ", "#", "*", "-", ".", "/", "0", "1", "2", "7", ":",
     "A", "a", "b", "c", "h", "l", "o", "p", "s", "t" >>

Ord(c) == CHOOSE i \in 1..Len(Alphabet) : Alphabet[i] = c

Whitespace == {" ", "\n"}

Range(s) == { s[i] : i \in 1..Len(s) }

\* Python's str comparison s < t: lexicographic by code point.
RECURSIVE StrLess(_, _)
StrLess(s, t) ==
  IF t = << >> THEN FALSE
  ELSE IF s = << >> THEN TRUE
  ELSE IF Head(s) = Head(t) THEN StrLess(Tail(s), Tail(t))
  ELSE Ord(Head(s)) < Ord(Head(t))

\* str.lower(); "A" is the one upper-case letter of the Alphabet
Lower(s) == [ i \in 1..Len(s) |-> IF s[i] = "A" THEN "a" ELSE s[i] ]

\* str.startswith / str.endswith
StartsWith(s, p) == Len(p) <= Len(s) /\ SubSeq(s, 1, Len(p)) = p

EndsWith(s, p) ==
  Len(p) <= Len(s) /\ SubSeq(s, Len(s) - Len(p) + 1, Len(s)) = p

\* str.strip()
RECURSIVE LStrip(_)
LStrip(s) ==
  IF s # << >> /\ Head(s) \in Whitespace THEN LStrip(Tail(s)) ELSE s

RECURSIVE RStrip(_)
RStrip(s) ==
  IF s # << >> /\ s[Len(s)] \in Whitespace
  THEN RStrip(SubSeq(s, 1, Len(s) - 1)) ELSE s

Strip(s) == RStrip(LStrip(s))

\* str.split(sep) for a one-character separator: empty pieces are kept.
RECURSIVE SplitOn(_, _)
SplitOn(s, sep) ==
  IF sep \notin Range(s) THEN << s >>
  ELSE LET i == CHOOSE k \in 1..Len(s) :
                  s[k] = sep /\ \A j \in 1..(k - 1) : s[j] # sep
       IN << SubSeq(s, 1, i - 1) >> \o SplitOn(SubSeq(s, i + 1, Len(s)), sep)

\* str.split() without argument: runs of whitespace separate, no empty piece.
RECURSIVE SplitWs(_)
SplitWs(s) ==
  LET t == LStrip(s) IN
  IF t = << >> THEN << >>
  ELSE IF \A k \in 1..Len(t) : t[k] \notin Whitespace THEN << t >>
  ELSE LET i == CHOOSE k \in 1..Len(t) :
                  t[k] \in Whitespace /\ \A j \in 1..(k - 1) : t[j] \notin Whitespace
       IN << SubSeq(t, 1, i - 1) >> \o SplitWs(SubSeq(t, i + 1, Len(t)))

\* str.splitlines(): a trailing line break opens no further line.
SplitLines(s) ==
  IF s = << >> THEN << >>
  ELSE IF s[Len(s)] = "\n" THEN SplitOn(SubSeq(s, 1, Len(s) - 1), "\n")
  ELSE SplitOn(s, "\n")

\* sep.join(parts)
RECURSIVE Join(_, _)
Join(parts, sep) ==
  IF parts = << >> THEN << >>
  ELSE IF Len(parts) = 1 THEN parts[1]
  ELSE parts[1] \o sep \o Join(Tail(parts), sep)

\* sorted(S) for a set of str: ascending by StrLess.
RECURSIVE Sorted(_)
Sorted(S) ==
  IF S = {} THEN << >>
  ELSE LET m == CHOOSE x \in S : \A y \in S : y = x \/ StrLess(x, y)
       IN << m >> \o Sorted(S \ {m})

\* All enumeration orders of a finite set (list(domains) on a Python set,
\* whose iteration order depends on the hash seed of the run).
RECURSIVE Orders(_)
Orders(S) ==
  IF S = {} THEN { << >> }
  ELSE UNION { { << x >> \o l : l \in Orders(S \ {x}) } : x \in S }

(***************************************************************************)
(* DomainProcessor: the consolidator.                                      *)
(***************************************************************************)

\* Value of a name that holds no str (Python's None).
None == << "None" >>

\* parts = domain.split(".")
Labels(domain) == SplitOn(domain, ".")

\* root = ".".join(parts[-2:])
RootKey(parts) == Join(SubSeq(parts, Len(parts) - 1, Len(parts)), << "." >>)

\* Faulty variant of Groupable: the label count is compared with 3.
GroupableThree(parts) == Len(parts) >= 3

\* if len(parts) >= 2:
Groupable(parts) == Len(parts) >= 2

\* The grouping loop: groups is a dict from root to the list of its domains,
\* keys holds the roots in insertion order.
RECURSIVE GroupBy(_, _)
GroupBy(domain_list, acc) ==
  IF domain_list = << >> THEN acc
  ELSE LET domain == Head(domain_list)
           parts == Labels(domain)
           root == RootKey(parts)
       IN IF Groupable(parts)
          THEN GroupBy(Tail(domain_list),
                 IF root \in DOMAIN acc.groups
                 THEN [ acc EXCEPT !.groups[root] = Append(@, domain) ]
                 ELSE [ keys |-> Append(acc.keys, root),
                        groups |-> [ r \in DOMAIN acc.groups \cup {root} |->
                                       IF r = root THEN << domain >>
                                       ELSE acc.groups[r] ] ])
          ELSE GroupBy(Tail(domain_list), acc)

EmptyGroups == [ keys |-> << >>, groups |-> << >> ]

Min(S) == CHOOSE x \in S : \A y \in S : x <= y

\* Faulty variant of SuffixRange: range(1, min_length), which never looks
\* at the leftmost label of the shortest member.
SuffixRangeShort(min_length) == 1..(min_length - 1)

\* range(1, min_length + 1)
SuffixRange(min_length) == 1..min_length

\* find_common_suffix
find_common_suffix(domains) ==
  IF domains = << >> THEN << >>
  ELSE
    LET domain_parts == [ k \in 1..Len(domains) |-> Labels(domains[k]) ]
        min_length == Min({ Len(domain_parts[k]) : k \in 1..Len(domains) })
        parts_at(i) == { domain_parts[k][Len(domain_parts[k]) - i + 1] :
                           k \in 1..Len(domains) }
        \* the loop breaks at the first position where the labels differ
        agree == { i \in SuffixRange(min_length) :
                     \A j \in 1..i : Cardinality(parts_at(j)) = 1 }
        n == Cardinality(agree)
        first == domain_parts[1]
        common_suffix == SubSeq(first, Len(first) - n + 1, Len(first))
    IN Join(common_suffix, << "." >>)

\* domain == common_suffix or domain.endswith("." + common_suffix), for all
covered(common_suffix, group_domains) ==
  \A k \in 1..Len(group_domains) :
    \/ group_domains[k] = common_suffix
    \/ EndsWith(group_domains[k], << "." >> \o common_suffix)

\* Faulty variant of GroupResult: the suffix is added with the "." of the
\* endswith test in front of it.
GroupResultDotted(group_domains) ==
  IF Len(group_domains) = 1
  THEN [ branch |-> "single", emit |-> { group_domains[1] } ]
  ELSE LET common_suffix == find_common_suffix(group_domains)
       IN IF common_suffix # << >> /\ Len(Labels(common_suffix)) >= 2
          THEN IF covered(common_suffix, group_domains)
               THEN [ branch |-> "suffix",
                      emit |-> { << "." >> \o common_suffix } ]
               ELSE [ branch |-> "uncovered", emit |-> Range(group_domains) ]
          ELSE [ branch |-> "members", emit |-> Range(group_domains) ]

\* Faulty variant of GroupResult: the first member of the group is added in
\* place of the common suffix.
GroupResultFirst(group_domains) ==
  IF Len(group_domains) = 1
  THEN [ branch |-> "single", emit |-> { group_domains[1] } ]
  ELSE LET common_suffix == find_common_suffix(group_domains)
       IN IF common_suffix # << >> /\ Len(Labels(common_suffix)) >= 2
          THEN IF covered(common_suffix, group_domains)
               THEN [ branch |-> "suffix", emit |-> { group_domains[1] } ]
               ELSE [ branch |-> "uncovered", emit |-> Range(group_domains) ]
          ELSE [ branch |-> "members", emit |-> Range(group_domains) ]

\* Body of the loop over groups.items(): what one group adds to optimised,
\* and the branch that was taken.
GroupResult(group_domains) ==
  IF Len(group_domains) = 1
  THEN [ branch |-> "single", emit |-> { group_domains[1] } ]
  ELSE LET common_suffix == find_common_suffix(group_domains)
       IN IF common_suffix # << >> /\ Len(Labels(common_suffix)) >= 2
          THEN IF covered(common_suffix, group_domains)
               THEN [ branch |-> "suffix", emit |-> { common_suffix } ]
               ELSE [ branch |-> "uncovered", emit |-> Range(group_domains) ]
          ELSE [ branch |-> "members", emit |-> Range(group_domains) ]

\* optimise_domains, for one enumeration order of the set domains
optimise_domains(domain_list) ==
  LET g == GroupBy(domain_list, EmptyGroups)
  IN UNION { GroupResult(g.groups[r]).emit : r \in DOMAIN g.groups }

\* format_for_ublacklist
format_for_ublacklist(domain) ==
  << "*", ":", "/", "/", "*", "." >> \o domain \o << "/", "*" >>

(***************************************************************************)
(* DomainProcessor: the extractor.                                         *)
(***************************************************************************)

\* Python's truth value of an Optional[str]
Truthy(s) == s # None /\ s # << >>

HostsAddresses == { << "0", ".", "0", ".", "0", ".", "0" >>, << "1", "2", "7", ".", "0", ".", "0", ".", "1" >> }

\* extract_domain_from_hosts
extract_domain_from_hosts(line) ==
  LET parts == SplitWs(Strip(line))
  IN IF Len(parts) >= 2 /\ parts[1] \in HostsAddresses
     THEN Strip(SplitOn(Strip(parts[2]), "#")[1])
     ELSE None

\* re.sub(r"^https?://", "", domain)
StripScheme(domain) ==
  IF StartsWith(domain, << "h", "t", "t", "p", ":", "/", "/" >>)
  THEN SubSeq(domain, 8, Len(domain))
  ELSE IF StartsWith(domain, << "h", "t", "t", "p", "s", ":", "/", "/" >>)
  THEN SubSeq(domain, 9, Len(domain))
  ELSE domain

\* normalise_domain
normalise_domain(domain) ==
  LET lowered == Lower(Strip(domain))
      no_scheme == StripScheme(lowered)
      no_path == SplitOn(no_scheme, "/")[1]
  IN SplitOn(no_path, ":")[1]

\* if domain: domains.add(self.normalise_domain(domain))
HostsLine(line) ==
  LET domain == extract_domain_from_hosts(line)
  IN IF Truthy(domain) THEN { normalise_domain(domain) } ELSE {}

\* if domain and "." in domain: domains.add(domain)
DomainLine(line) ==
  LET domain == normalise_domain(line)
  IN IF domain # << >> /\ "." \in Range(domain) THEN { domain } ELSE {}

\* Body of the loop over content.splitlines(): the domains one line adds.
LineResult(raw, source_type) ==
  LET line == Strip(raw)
  IN IF line = << >> \/ StartsWith(line, << "#" >>) THEN {}
     ELSE IF source_type = "hosts" THEN HostsLine(line)
     ELSE IF source_type = "domain" THEN DomainLine(line)
     ELSE {}

\* process_source
process_source(content, source_type) ==
  LET lines == SplitLines(content)
  IN UNION { LineResult(lines[i], source_type) : i \in 1..Len(lines) }

(***************************************************************************)
(* fetch_source and the configuration files.                               *)
(***************************************************************************)

\* Outcome of requests.get / raise_for_status when the request fails.
FetchFailed == << "RequestException" >>

\* Faulty variant of fetch_source: no try/except around the request.
fetch_source_uncaught(response) ==
  [ raised |-> response = FetchFailed,
    text |-> IF response = FetchFailed THEN << >> ELSE response ]

\* fetch_source: every exception of the request is caught and "" returned.
fetch_source(response) ==
  [ raised |-> FALSE,
    text |-> IF response = FetchFailed THEN << >> ELSE response ]

\* The set built from config.manual_entries
manual_set(entries) ==
  { n \in { normalise_domain(entries[i]) : i \in 1..Len(entries) } :
      n # << >> /\ "." \in Range(n) }

\* The methods DomainProcessor defines.
ProcessorMethods ==
  { "extract_domain_from_hosts", "normalise_domain", "find_common_suffix",
    "optimise_domains", "format_for_ublacklist", "process_source" }

(***************************************************************************)
(* State.                                                                  *)
(***************************************************************************)
VARIABLES
  \* optimise_domains, step by step
  opc,            \* position in optimise_domains
  domains,        \* the set given to the first call of optimise_domains
  domain_list,    \* list(domains) of the running call
  groups,         \* the dict groups with its keys in insertion order
  group_idx,      \* position of the loop over groups.items()
  optimised,      \* the set optimised
  branch,         \* branch taken by the last iteration over a group
  pass,           \* 1: first call, 2: call on the result of the first
  first_result,   \* result of the first call
  \* process_source, step by step
  spc,            \* position in process_source
  content,        \* the text of the source
  source_type,    \* the type tag of the source
  line_idx,       \* position of the loop over content.splitlines()
  src_domains,    \* the set domains that process_source builds
  \* main and process_category
  pc,             \* position in main / process_category
  category,       \* index in repo_config["categories"] of the running category
  config,         \* the CategoryConfig of the running category
  responses,      \* outcome of the request of each source processed so far
  all_domains,    \* the set all_domains
  before_whitelist, \* all_domains on entry to the whitelist step
  optimised_domains, \* result of optimise_domains
  ublacklist_entries, \* the pattern lines, in the order they are written
  total_entries,  \* main's counter
  exception       \* the exception that left main, "none" if none

optVars ==
  << opc, domains, domain_list, groups, group_idx, optimised, branch, pass,
     first_result >>

srcVars == << spc, content, source_type, line_idx, src_domains >>

catVars ==
  << pc, category, config, responses, all_domains, before_whitelist,
     optimised_domains, ublacklist_entries, total_entries, exception >>

vars == << optVars, srcVars, catVars >>

\* The name config before a configuration is loaded.
NoConfig == [ sources |-> << >>, whitelist |-> << >>, manual_entries |-> << >> ]

\* Values of the variables of a part of the program that is not running.
OptIdle ==
  /\ opc = "idle"
  /\ domains = {}
  /\ domain_list = << >>
  /\ groups = EmptyGroups
  /\ group_idx = 0
  /\ optimised = {}
  /\ branch = "none"
  /\ pass = 1
  /\ first_result = {}

SrcIdle ==
  /\ spc = "idle"
  /\ content = << >>
  /\ source_type = "none"
  /\ line_idx = 0
  /\ src_domains = {}

CatIdle ==
  /\ pc = "idle"
  /\ category = 0
  /\ config = NoConfig
  /\ responses = << >>
  /\ all_domains = {}
  /\ before_whitelist = {}
  /\ optimised_domains = {}
  /\ ublacklist_entries = << >>
  /\ total_entries = 0
  /\ exception = "none"

(***************************************************************************)
(* Consolidation: optimise_domains applied to a bounded set of domains.    *)
(***************************************************************************)

LabelSet == { << "a" >>, << "b" >> }

\* The last label of every domain of the universe.
Tld == << "b" >>

LabelSeqs == UNION { [1..n -> LabelSet] : n \in 0..(MaxLabels - 1) }

\* Domains of the data model: 1 to MaxLabels non-empty labels joined by "."
DomainUniverse == { Join(ls \o << Tld >>, << "." >>) : ls \in LabelSeqs }

DomainLists ==
  { l \in UNION { [1..n -> DomainUniverse] : n \in 0..MaxDomains } :
      \A i, j \in DOMAIN l : i # j => l[i] # l[j] }

OptInit ==
  /\ domain_list \in DomainLists
  /\ domains = Range(domain_list)
  /\ opc = "group"
  /\ groups = EmptyGroups
  /\ group_idx = 0
  /\ optimised = {}
  /\ branch = "none"
  /\ pass = 1
  /\ first_result = {}
  /\ SrcIdle
  /\ CatIdle

\* for domain in domain_list: ... groups[root].append(domain)
OptGroup ==
  /\ opc = "group"
  /\ groups' = GroupBy(domain_list, EmptyGroups)
  /\ group_idx' = 1
  /\ optimised' = {}
  /\ opc' = "groups"
  /\ UNCHANGED << domains, domain_list, branch, pass, first_result >>
  /\ UNCHANGED << srcVars, catVars >>

\* one iteration of: for root, group_domains in groups.items()
OptConsolidate ==
  /\ opc = "groups"
  /\ group_idx <= Len(groups.keys)
  /\ LET r == GroupResult(groups.groups[groups.keys[group_idx]])
     IN /\ optimised' = optimised \cup r.emit
        /\ branch' = r.branch
  /\ group_idx' = group_idx + 1
  /\ UNCHANGED << opc, domains, domain_list, groups, pass, first_result >>
  /\ UNCHANGED << srcVars, catVars >>

\* return optimised
OptReturn ==
  /\ opc = "groups"
  /\ group_idx > Len(groups.keys)
  /\ opc' = "done"
  /\ UNCHANGED << domains, domain_list, groups, group_idx, optimised, branch,
                  pass, first_result >>
  /\ UNCHANGED << srcVars, catVars >>

\* optimise_domains called again on the set it returned, enumerated in
\* any order
OptAgain ==
  /\ opc = "done"
  /\ pass = 1
  /\ pass' = 2
  /\ first_result' = optimised
  /\ \E l \in Orders(optimised) :
       /\ domain_list' = l
       /\ groups' = GroupBy(l, EmptyGroups)
       /\ optimised' = optimise_domains(l)
  /\ group_idx' = Len(groups'.keys) + 1
  /\ UNCHANGED << opc, domains, branch >>
  /\ UNCHANGED << srcVars, catVars >>

OptNext == OptGroup \/ OptConsolidate \/ OptReturn \/ OptAgain

SpecOpt == OptInit /\ [][OptNext]_vars

(***************************************************************************)
(* Extraction: process_source applied to a bounded source text.            *)
(***************************************************************************)

\* Lines of source texts: blocking hosts lines, a localhost line, a hosts
\* line whose second token is a bare scheme, a comment, bare domain lines,
\* a blank line and a hosts line of another address.
SampleLines ==
  { << "0", ".", "0", ".", "0", ".", "0", " ", "a", ".", "b" >>,
    << "1", "2", "7", ".", "0", ".", "0", ".", "1", " ", "l", "o", "c", "a", "l", "h", "o", "s", "t" >>,
    << "0", ".", "0", ".", "0", ".", "0", " ", "h", "t", "t", "p", ":", "/", "/" >>,
    << "#", " ", "c" >>,
    << "A", ".", "b", "/", "c" >>,
    << "a" >>,
    << >>,
    << "0", ".", "0", ".", "0", ".", "0", " ", "c", ".", "a", ".", "b", "#", "t" >>,
    << "h", "t", "t", "p", "s", ":", "/", "/", "a", ".", "b", ".", "c", ":", "7" >>,
    << "1", ".", "1", ".", "1", ".", "1", " ", "a", ".", "b" >> }

LineSeqs == UNION { [1..n -> SampleLines] : n \in 0..MaxLines }

SourceTexts == { Join(ls, << "\n" >>) : ls \in LineSeqs }

SourceTypes == { "hosts", "domain", "rpz" }

SrcInit ==
  /\ content \in SourceTexts
  /\ source_type \in SourceTypes
  /\ spc = "lines"
  /\ line_idx = 1
  /\ src_domains = {}
  /\ OptIdle
  /\ CatIdle

\* one iteration of: for line in content.splitlines()
SrcLine ==
  /\ spc = "lines"
  /\ line_idx <= Len(SplitLines(content))
  /\ src_domains' =
       src_domains \cup LineResult(SplitLines(content)[line_idx], source_type)
  /\ line_idx' = line_idx + 1
  /\ UNCHANGED << spc, content, source_type >>
  /\ UNCHANGED << optVars, catVars >>

\* return domains
SrcReturn ==
  /\ spc = "lines"
  /\ line_idx > Len(SplitLines(content))
  /\ spc' = "done"
  /\ UNCHANGED << content, source_type, line_idx, src_domains >>
  /\ UNCHANGED << optVars, catVars >>

SrcNext == SrcLine \/ SrcReturn

SpecSrc == SrcInit /\ [][SrcNext]_vars

\* C9 - Extractor output filtering: for both source types, every element of
\* the set process_source returns is a non-empty string containing a ".".
C9_Filtered ==
  \A d \in src_domains : d # << >> /\ "." \in Range(d)

(***************************************************************************)
(* main and process_category.                                              *)
(***************************************************************************)

\* Entries of the sources list of a category configuration.
SourceSet ==
  { [ url |-> "u1", type |-> "hosts" ], [ url |-> "u2", type |-> "domain" ] }

SourceLists == UNION { [1..n -> SourceSet] : n \in 0..MaxSources }

\* A category configuration file that loads.
Configs ==
  [ sources : SourceLists,
    whitelist : { << >>, << << "a", ".", "b" >> >> },
    manual_entries : { << >>, << << "A", ".", "a", ".", "b" >> >> } ]

\* What open() and the parser can find at a category's config path.
ConfigFiles ==
  [ state : { "valid" }, document : Configs ]
    \cup [ state : { "missing", "malformed" }, document : { NoConfig } ]

\* What a request can produce: a failure, an empty body, a list of domains
\* or a hosts file.
Responses ==
  { FetchFailed,
    << >>,
    << "a", ".", "b", "\n", "a", ".", "b", ".", "c", "\n" >>,
    << "1", "2", "7", ".", "0", ".", "0", ".", "1", " ", "a", ".", "b" >> }

Succeeded(i) == responses[i] # FetchFailed

Init ==
  /\ pc = "main"
  /\ category = 0
  /\ config = NoConfig
  /\ responses = << >>
  /\ all_domains = {}
  /\ before_whitelist = {}
  /\ optimised_domains = {}
  /\ ublacklist_entries = << >>
  /\ total_entries = 0
  /\ exception = "none"
  /\ OptIdle
  /\ SrcIdle

\* for category in repo_config["categories"]: the next category, or the end
\* of the loop and return 0
MainNext ==
  /\ pc = "main"
  /\ IF category < NumCategories
     THEN /\ category' = category + 1
          /\ pc' = "config"
     ELSE /\ pc' = "done"
          /\ UNCHANGED category
  /\ UNCHANGED << config, responses, all_domains, before_whitelist,
                  optimised_domains, ublacklist_entries, total_entries,
                  exception >>
  /\ UNCHANGED << optVars, srcVars >>

\* config = CategoryConfig(category_path): open() or the parser raises when
\* the file is missing or malformed; neither process_category nor main
\* catches it.
LoadConfig ==
  /\ pc = "config"
  /\ \E file \in ConfigFiles :
       IF file.state # "valid"
       THEN /\ pc' = "raised"
            /\ exception' = IF file.state = "missing"
                            THEN "FileNotFoundError" ELSE "YAMLError"
            /\ UNCHANGED << config, responses, all_domains >>
       ELSE /\ config' = file.document
            /\ responses' = << >>
            /\ all_domains' = {}
            /\ pc' = "sources"
            /\ UNCHANGED exception
  /\ UNCHANGED << category, before_whitelist, optimised_domains,
                  ublacklist_entries, total_entries >>
  /\ UNCHANGED << optVars, srcVars >>

\* one iteration of: for source in config.sources
ProcessSource ==
  /\ pc = "sources"
  /\ Len(responses) < Len(config.sources)
  /\ \E response \in Responses :
       LET source == config.sources[Len(responses) + 1]
           fetched == fetch_source(response)
       IN /\ responses' = Append(responses, response)
          /\ IF fetched.raised
             THEN /\ pc' = "raised"
                  /\ exception' = "RequestException"
                  /\ UNCHANGED all_domains
             ELSE /\ all_domains' =
                       IF fetched.text # << >>
                       THEN all_domains \cup
                              process_source(fetched.text, source.type)
                       ELSE all_domains
                  /\ UNCHANGED << pc, exception >>
  /\ UNCHANGED << category, config, before_whitelist, optimised_domains,
                  ublacklist_entries, total_entries >>
  /\ UNCHANGED << optVars, srcVars >>

\* the manual entries, after the last source
AddManual ==
  /\ pc = "sources"
  /\ Len(responses) = Len(config.sources)
  /\ pc' = "manual"
  /\ UNCHANGED << category, config, responses, all_domains, before_whitelist,
                  optimised_domains, ublacklist_entries, total_entries,
                  exception >>
  /\ UNCHANGED << optVars, srcVars >>

\* all_domains.update(manual_entries)
UpdateManual ==
  /\ pc = "manual"
  /\ all_domains' = all_domains \cup manual_set(config.manual_entries)
  /\ pc' = "whitelist"
  /\ UNCHANGED << category, config, responses, before_whitelist,
                  optimised_domains, ublacklist_entries, total_entries,
                  exception >>
  /\ UNCHANGED << optVars, srcVars >>

\* whitelist = set(config.whitelist); if whitelist:
\*     all_domains = processor.apply_whitelist(all_domains, whitelist)
\* DomainProcessor has no attribute apply_whitelist: the call raises.
ApplyWhitelist ==
  /\ pc = "whitelist"
  /\ before_whitelist' = all_domains
  /\ LET whitelist == Range(config.whitelist)
     IN IF whitelist # {}
        THEN IF "apply_whitelist" \in ProcessorMethods
             THEN /\ all_domains' = all_domains \ whitelist
                  /\ pc' = "optimise"
                  /\ UNCHANGED exception
             ELSE /\ pc' = "raised"
                  /\ exception' = "AttributeError"
                  /\ UNCHANGED all_domains
        ELSE /\ pc' = "optimise"
             /\ UNCHANGED << all_domains, exception >>
  /\ UNCHANGED << category, config, responses, optimised_domains,
                  ublacklist_entries, total_entries >>
  /\ UNCHANGED << optVars, srcVars >>

\* optimised_domains = processor.optimise_domains(all_domains)
Optimise ==
  /\ pc = "optimise"
  /\ \E l \in Orders(all_domains) : optimised_domains' = optimise_domains(l)
  /\ pc' = "format"
  /\ UNCHANGED << category, config, responses, all_domains, before_whitelist,
                  ublacklist_entries, total_entries, exception >>
  /\ UNCHANGED << optVars, srcVars >>

\* for domain in sorted(optimised_domains):
\*     ublacklist_entries.append(processor.format_for_ublacklist(domain))
sorted_entries(optimised_set) ==
  LET order == Sorted(optimised_set)
  IN [ i \in 1..Len(order) |-> format_for_ublacklist(order[i]) ]

Format ==
  /\ pc = "format"
  /\ ublacklist_entries' = sorted_entries(optimised_domains)
  /\ pc' = "write"
  /\ UNCHANGED << category, config, responses, all_domains, before_whitelist,
                  optimised_domains, total_entries, exception >>
  /\ UNCHANGED << optVars, srcVars >>

\* the header and the entries are written and process_category returns,
\* which ends the life of its locals; total_entries += entries
Write ==
  /\ pc = "write"
  /\ total_entries' = total_entries + Len(ublacklist_entries)
  /\ pc' = "main"
  /\ config' = NoConfig
  /\ responses' = << >>
  /\ all_domains' = {}
  /\ before_whitelist' = {}
  /\ optimised_domains' = {}
  /\ ublacklist_entries' = << >>
  /\ UNCHANGED << category, exception >>
  /\ UNCHANGED << optVars, srcVars >>

Next ==
  \/ MainNext
  \/ LoadConfig
  \/ ProcessSource
  \/ AddManual
  \/ UpdateManual
  \/ ApplyWhitelist
  \/ Optimise
  \/ Format
  \/ Write

Spec == Init /\ [][Next]_vars

(***************************************************************************)
(* Properties of the consolidation.                                        *)
(***************************************************************************)

\* c is a right-aligned label suffix of d
IsLabelSuffix(c, d) ==
  LET lc == Labels(c)
      ld == Labels(d)
  IN Len(lc) <= Len(ld) /\ SubSeq(ld, Len(ld) - Len(lc) + 1, Len(ld)) = lc

Covers(c, d) == d = c \/ EndsWith(d, << "." >> \o c)

FirstCallDone == opc = "done" /\ pass = 1

SecondCallDone == opc = "done" /\ pass = 2

\* C1 - Coverage: every member of the input set, one-label members included,
\* is equal to an element of optimise_domains(D) or ends with "." + it.
C1_Coverage ==
  FirstCallDone => \A d \in domains : \E c \in optimised : Covers(c, d)

\* C6 - Idempotence: optimise_domains applied to its own result returns
\* that result unchanged.
C6_Idempotent == SecondCallDone => optimised = first_result

C6_Witness ==
  /\ SecondCallDone
  /\ Cardinality(first_result) < Cardinality(domains)
  /\ Cardinality(first_result) >= 2
  /\ first_result \ domains # {}

\* C7 - No spurious domains: every element of optimise_domains(D) is a
\* member of D or a right-aligned suffix of at least 2 labels of a member
\* of D.
C7_NoSpurious ==
  FirstCallDone =>
    \A c \in optimised :
      \/ c \in domains
      \/ /\ Len(Labels(c)) >= 2
         /\ \E d \in domains : IsLabelSuffix(c, d)

C7_Witness ==
  /\ FirstCallDone
  /\ optimised \ domains # {}
  /\ optimised \cap domains # {}

\* C8 - Determinism: whatever the order in which the members of D are
\* enumerated into domain_list (every order is an initial state), the set
\* optimise_domains returns is the one it returns for the sorted order, so
\* any two orders give the same set.
C8_Deterministic ==
  FirstCallDone => optimised = optimise_domains(Sorted(domains))

C8_Witness ==
  /\ FirstCallDone
  /\ Cardinality(domains) >= 3
  /\ branch = "suffix"
  /\ Cardinality(optimised) >= 2
  /\ domain_list # Sorted(domains)

GroupableRoots ==
  { RootKey(Labels(d)) : d \in { x \in domains : Len(Labels(x)) >= 2 } }

C2_SortedByPattern ==
  pc = "write" =>
    \A i, j \in 1..Len(ublacklist_entries) :
      i < j => StrLess(ublacklist_entries[i], ublacklist_entries[j])

\* C3 - Whitelist application: with a non-empty whitelist, the whitelist
\* step leaves all_domains minus the whitelist entries and the run goes on
\* to consolidation and output.
C3_WhitelistApplied ==
  (config.whitelist # << >> /\ pc \notin { "sources", "manual", "whitelist" })
    => /\ pc \in { "optimise", "format", "write" }
       /\ exception = "none"
       /\ all_domains = before_whitelist \ Range(config.whitelist)

\* C4 - Category failure isolation: a failing category does not keep main
\* from processing every later category, so main ends only after the last
\* category was started.
C4_Isolation ==
  pc \in { "done", "raised" } => category = NumCategories

\* The union of what process_source extracts from the sources whose request
\* succeeded, among those processed so far.
ExtractedFromFetched ==
  UNION { process_source(responses[i], config.sources[i].type) :
            i \in { k \in 1..Len(responses) : Succeeded(k) } }

\* C5 - Fetch failure tolerance: a failed request never aborts
\* process_category, the remaining sources are still processed, and
\* all_domains is the union of the sets extracted from the sources that
\* were fetched, whatever their order.
C5_FetchTolerant ==
  /\ exception # "RequestException"
  /\ pc \in { "sources", "manual" } => all_domains = ExtractedFromFetched
  /\ pc = "manual" => Len(responses) = Len(config.sources)

C5_Witness ==
  /\ pc = "manual"
  /\ \E i, j \in 1..Len(responses) :
       /\ i < j
       /\ ~Succeeded(i)
       /\ Succeeded(j)
       /\ process_source(responses[j], config.sources[j].type) # {}
  /\ all_domains # {}

====
